---------------------------- MODULE Spec2Model ----------------------------
(***************************************************************************)
(* Update pipeline of the PyQt auto-update demo (src/main.py):             *)
(*   UpdateChecker.run, UpdateDownloader.run and the MainWindow handlers   *)
(*   that start them and react to their signals.                           *)
(*                                                                         *)
(* Python strings are modelled as sequences of one-character strings, so   *)
(* that lstrip, split, int, lower, endswith and `in` are computed the way  *)
(* the interpreter computes them.  A JSON value is a tagged record:        *)
(*   [t |-> "absent"]  the key is not in the object                        *)
(*   [t |-> "null"]    JSON null                                           *)
(*   [t |-> "str", v |-> <<chars>>]                                        *)
(*   [t |-> "list", v |-> <<items>>]                                       *)
(* An operation that can raise returns a record with a field `raised`.     *)
(***************************************************************************)
EXTENDS Integers, Sequences, FiniteSets, TLC

VARIABLES
    platform,    \* sys.platform, fixed for the life of the process
    checker,     \* one UpdateChecker.run: position, locals, signals emitted
    downloader,  \* one UpdateDownloader.run: position, locals, signals emitted
                 \* (under SpecFiles, the sequence of the runs started)
    window,      \* MainWindow, its worker threads and the Qt event loop
    files        \* the temporary directory: path -> bytes of the file there

vars == <<platform, checker, downloader, window, files>>

-----------------------------------------------------------------------------
(* Bounds of the model *)

MaxAssets == 2      \* longest asset list of a feed response
MaxTotal == 4       \* largest content-length a download response declares
MaxChunkLen == 2    \* largest chunk iter_content delivers, in bytes
MaxChunks == 3      \* most chunks a download stream delivers
MaxThreads == 2     \* most worker threads of one kind running at once
MaxQueue == 1       \* most signals waiting in the main thread's event queue
MaxDialogs == 2     \* deepest nesting of modal dialogs
MaxVersionLen == 3  \* longest version string handed to is_newer_version

-----------------------------------------------------------------------------
(* Python string primitives *)

Digits == <<"0", "1", "2", "3", "4", "5", "6", "7", "8", "9">>
UpperCase == <<"A", "B", "C", "D", "E", "F", "G", "H", "I", "J", "K", "L", "M",
               "N", "O", "P", "Q", "R", "S", "T", "U", "V", "W", "X", "Y", "Z">>
LowerCase == <<"a", "b", "c", "d", "e", "f", "g", "h", "i", "j", "k", "l", "m",
               "n", "o", "p", "q", "r", "s", "t", "u", "v", "w", "x", "y", "z">>

\* str.lower() on one character
LowerChar(c) ==
    IF \E i \in 1..26 : UpperCase[i] = c
    THEN LowerCase[CHOOSE i \in 1..26 : UpperCase[i] = c]
    ELSE c

\* str.lower()
Lower(s) == [i \in 1..Len(s) |-> LowerChar(s[i])]

\* str.startswith(p)
StartsWith(s, p) == Len(s) >= Len(p) /\ SubSeq(s, 1, Len(p)) = p

\* str.endswith(p)
EndsWith(s, p) ==
    Len(s) >= Len(p) /\ SubSeq(s, Len(s) - Len(p) + 1, Len(s)) = p

\* `sub in s`
Contains(s, sub) ==
    \E i \in 0..(Len(s) - Len(sub)) : SubSeq(s, i + 1, i + Len(sub)) = sub

\* str.lstrip('v'): every leading 'v' is removed
RECURSIVE lstrip_v(_)
lstrip_v(s) ==
    IF s # <<>> /\ Head(s) = "v" THEN lstrip_v(Tail(s)) ELSE s

\* str.split('.'): the segments between the dots, empty ones included
RECURSIVE SplitFrom(_, _)
SplitFrom(s, cur) ==
    IF s = <<>> THEN <<cur>>
    ELSE IF Head(s) = "." THEN <<cur>> \o SplitFrom(Tail(s), <<>>)
    ELSE SplitFrom(Tail(s), Append(cur, Head(s)))

split_dot(s) == SplitFrom(s, <<>>)

IsDigit(c) == \E i \in 1..10 : Digits[i] = c
DigitValue(c) == (CHOOSE i \in 1..10 : Digits[i] = c) - 1

RECURSIVE DigitsValue(_, _)
DigitsValue(s, acc) ==
    IF s = <<>> THEN acc ELSE DigitsValue(Tail(s), 10 * acc + DigitValue(Head(s)))

\* int(x) for a string of the characters the model draws from: an optional
\* sign followed by at least one decimal digit; anything else is ValueError
int(x) ==
    LET signed == x # <<>> /\ Head(x) \in {"-", "+"}
        body   == IF signed THEN Tail(x) ELSE x
    IN  IF body = <<>> \/ \E i \in 1..Len(body) : ~IsDigit(body[i])
        THEN [raised |-> TRUE, val |-> 0]
        ELSE [raised |-> FALSE,
              val |-> IF signed /\ Head(x) = "-"
                      THEN 0 - DigitsValue(body, 0)
                      ELSE DigitsValue(body, 0)]

-----------------------------------------------------------------------------
(* UpdateChecker *)

\* APP_VERSION = "1.0.0"
APP_VERSION == <<"1", ".", "0", ".", "0">>

\* [int(x) for x in s.split('.')]
ParseParts(s) ==
    LET segs == split_dot(s)
    IN  IF \E i \in 1..Len(segs) : int(segs[i]).raised
        THEN [raised |-> TRUE, val |-> <<>>]
        ELSE [raised |-> FALSE, val |-> [i \in 1..Len(segs) |-> int(segs[i]).val]]

\* parts.extend([0] * (max_len - len(parts)))
Pad(parts, max_len) ==
    [i \in 1..max_len |-> IF i <= Len(parts) THEN parts[i] ELSE 0]

\* list `a > b` of Python: the first differing element decides, else the length
RECURSIVE ListGreater(_, _)
ListGreater(a, b) ==
    IF a = <<>> THEN FALSE
    ELSE IF b = <<>> THEN TRUE
    ELSE IF Head(a) # Head(b) THEN Head(a) > Head(b)
    ELSE ListGreater(Tail(a), Tail(b))

Max(m, n) == IF m >= n THEN m ELSE n

\* Mutant: the comparison lets an equal version through (>= for >)
is_newer_version_orEqual(latest, current) ==
    LET l == ParseParts(latest)
        c == ParseParts(current)
        max_len == Max(Len(l.val), Len(c.val))
    IN  IF l.raised \/ c.raised
        THEN [raised |-> TRUE, val |-> FALSE]
        ELSE [raised |-> FALSE,
              val |-> ~ListGreater(Pad(c.val, max_len), Pad(l.val, max_len))]

\* UpdateChecker.is_newer_version; raised = ValueError of int()
is_newer_version(latest, current) ==
    LET l == ParseParts(latest)
        c == ParseParts(current)
        max_len == Max(Len(l.val), Len(c.val))
    IN  IF l.raised \/ c.raised
        THEN [raised |-> TRUE, val |-> FALSE]
        ELSE [raised |-> FALSE,
              val |-> ListGreater(Pad(l.val, max_len), Pad(c.val, max_len))]

\* sys.platform values the process may run on
S_win32   == <<"w", "i", "n", "3", "2">>
S_darwin  == <<"d", "a", "r", "w", "i", "n">>
S_linux   == <<"l", "i", "n", "u", "x">>
S_freebsd == <<"f", "r", "e", "e", "b", "s", "d">>
Platforms == {S_win32, S_darwin, S_linux, S_freebsd}

S_win  == <<"w", "i", "n">>
S_exe  == <<".", "e", "x", "e">>
S_mac  == <<"m", "a", "c">>

Absent == [t |-> "absent"]
Null   == [t |-> "null"]
Str(s) == [t |-> "str", v |-> s]
List(l) == [t |-> "list", v |-> l]

\* Which branch of the if/elif chain of lines 39-47 the platform selects
PlatformRule(p) ==
    IF StartsWith(p, S_win) THEN "win"
    ELSE IF StartsWith(p, S_darwin) THEN "darwin"
    ELSE IF StartsWith(p, S_linux) THEN "linux"
    ELSE "none"

\* The name test of the selected branch
NameMatches(name, rule) ==
    CASE rule = "win"    -> EndsWith(name, S_exe)
      [] rule = "darwin" -> Contains(Lower(name), S_mac)
      [] rule = "linux"  -> Contains(Lower(name), S_linux)
      [] OTHER           -> FALSE

\* One iteration of the loop body on `asset`:
\*   "raise"  asset['name'] or asset['browser_download_url'] raised
\*   "break"  the asset matched, url is its browser_download_url
\*   "next"   no match, the loop goes on
VisitAsset(asset, rule) ==
    IF rule = "none" THEN [r |-> "next", url |-> Null]
    ELSE IF asset.name.t # "str" THEN [r |-> "raise", url |-> Null]
    ELSE IF ~NameMatches(asset.name.v, rule) THEN [r |-> "next", url |-> Null]
    ELSE IF asset.url.t = "absent" THEN [r |-> "raise", url |-> Null]
    ELSE [r |-> "break", url |-> asset.url]

\* for asset in release_info['assets']: ... break
RECURSIVE ScanAssets(_, _)
ScanAssets(assets, rule) ==
    IF assets = <<>> THEN [raised |-> FALSE, url |-> Null]
    ELSE LET v == VisitAsset(Head(assets), rule)
         IN  CASE v.r = "raise" -> [raised |-> TRUE, url |-> Null]
               [] v.r = "break" -> [raised |-> FALSE, url |-> v.url]
               [] OTHER         -> ScanAssets(Tail(assets), rule)

\* The same loop without the break: the last matching asset wins
RECURSIVE ScanAssetsNoBreak(_, _, _)
ScanAssetsNoBreak(assets, rule, found) ==
    IF assets = <<>> THEN [raised |-> FALSE, url |-> found]
    ELSE LET v == VisitAsset(Head(assets), rule)
         IN  CASE v.r = "raise" -> [raised |-> TRUE, url |-> Null]
               [] v.r = "break" -> ScanAssetsNoBreak(Tail(assets), rule, v.url)
               [] OTHER         -> ScanAssetsNoBreak(Tail(assets), rule, found)

\* Mutant: the loop has lost its break
SelectAsset_noBreak(assets, p) ==
    IF assets.t # "list" THEN [raised |-> TRUE, url |-> Null]
    ELSE ScanAssetsNoBreak(assets.v, PlatformRule(p), Null)

\* Lines 37-47: asset_url after the loop; raised = KeyError/TypeError/
\* AttributeError from a missing or null assets, name or browser_download_url
SelectAsset(assets, p) ==
    IF assets.t # "list" THEN [raised |-> TRUE, url |-> Null]
    ELSE ScanAssets(assets.v, PlatformRule(p))

\* `if asset_url:`
Truthy(url) == url.t = "str" /\ url.v # <<>>


-----------------------------------------------------------------------------
(* Feed responses the checker is run against *)

\* `response.status_code == 200`
HTTP_OK == 200

Statuses == {HTTP_OK, 201, 404}

\* tag_name values: older, equal, newer, padded, repeated 'v', malformed
TagStrings == {
    <<"1", ".", "0", ".", "0">>,
    <<"v", "1", ".", "0", ".", "0">>,
    <<"1">>,
    <<"v", "1", ".", "0", ".", "1">>,
    <<"2">>,
    <<"v", "v", "2">>,
    <<"0", ".", "9">>,
    <<"1", ".", "0", ".", "0", ".", "1">>,
    <<"1", ".", "v">>,
    <<>>,
    <<"1", ".", ".", "1">>,
    <<"2", ".", "-", "1">>,
    <<"-", "1">> }
TagFields == {Absent, Null} \cup {Str(s) : s \in TagStrings}

N_win   == <<"a", "p", "p", "-", "w", "i", "n", ".", "e", "x", "e">>
N_linux == <<"a", "p", "p", "-", "l", "i", "n", "u", "x", ".", "t", "a", "r", ".", "g", "z">>
N_mac   == <<"A", "p", "p", "-", "M", "a", "c", ".", "E", "X", "E">>
U1 == <<"h", "/", "a">>
U2 == <<"g", "/", "a">>

NameFields == {Absent, Str(N_win), Str(N_linux), Str(N_mac)}
UrlFields  == {Absent, Str(<<>>), Str(U1), Str(U2)}
Assets     == [name : NameFields, url : UrlFields]

SeqsUpTo(S, n) == UNION {[1..k -> S] : k \in 0..n}
AssetFields == {Absent, Null} \cup {List(l) : l \in SeqsUpTo(Assets, MaxAssets)}

S_notes == <<"n", "o", "t", "e", "s">>
S_default_notes == <<"N", "o", " ", "r", "e", "l", "e", "a", "s", "e", " ", "n", "o", "t", "e", "s", " ", "a", "v", "a", "i", "l", "a", "b", "l", "e">>
BodyFields == {Absent, Null, Str(S_notes)}

-----------------------------------------------------------------------------
(* UpdateChecker.run, statement by statement.  checker.pc is the statement   *)
(* the thread is about to execute; the fields of the response are drawn when *)
(* the code reads them and kept in the record; checker.emitted is the        *)
(* sequence of signals the run has emitted so far.                          *)

NoUpdate == [sig |-> "no_update"]
ErrorOccurred(why) == [sig |-> "error_occurred", why |-> why]
UpdateAvailable(info) == [sig |-> "update_available", info |-> info]

CheckerStart ==
    [pc |-> "get", status |-> 0, tag_name |-> Absent, latest_version |-> <<>>,
     assets |-> Absent, asset_url |-> Null, body |-> Absent, emitted |-> <<>>]

\* signal.emit(...)
Emit(ck, signal) == [ck EXCEPT !.emitted = Append(@, signal)]

\* Mutant: `except Exception: pass`
CheckerExcept_silent(ck) == [ck EXCEPT !.pc = "done"]

\* Lines 62-63: the handler of the try block
CheckerExcept(ck) == [Emit(ck, ErrorOccurred("exception")) EXCEPT !.pc = "done"]

\* Mutant: a release without a usable asset is reported as a failure
CheckerNoAsset_error(ck) ==
    [Emit(ck, ErrorOccurred("no asset")) EXCEPT !.pc = "done"]

\* Lines 56-57: no usable asset
CheckerNoAsset(ck) == [Emit(ck, NoUpdate) EXCEPT !.pc = "done"]

\* Mutant: `if 200 <= response.status_code < 300`
Checker_get_2xx(ck, net) ==
    IF net.t = "exception" THEN CheckerExcept(ck)
    ELSE IF net.status >= HTTP_OK /\ net.status < 300
         THEN [ck EXCEPT !.status = net.status, !.pc = "json"]
         ELSE [Emit([ck EXCEPT !.status = net.status], ErrorOccurred("http"))
                  EXCEPT !.pc = "done"]

\* Lines 30-31, 60-61: the request and the status test
Checker_get(ck, net) ==
    IF net.t = "exception" THEN CheckerExcept(ck)
    ELSE IF net.status = HTTP_OK
         THEN [ck EXCEPT !.status = net.status, !.pc = "json"]
         ELSE [Emit([ck EXCEPT !.status = net.status], ErrorOccurred("http"))
                  EXCEPT !.pc = "done"]

\* Lines 32-35, 58-59: the body is parsed, the tag stripped and compared
Checker_version(ck, json_ok, tag_name) ==
    IF ~json_ok THEN CheckerExcept(ck)
    ELSE LET ck1 == [ck EXCEPT !.tag_name = tag_name]
         IN  IF tag_name.t # "str" THEN CheckerExcept(ck1)
             ELSE LET latest == lstrip_v(tag_name.v)
                      newer  == is_newer_version(latest, APP_VERSION)
                      ck2    == [ck1 EXCEPT !.latest_version = latest]
                  IN  IF newer.raised THEN CheckerExcept(ck2)
                      ELSE IF newer.val THEN [ck2 EXCEPT !.pc = "assets"]
                      ELSE [Emit(ck2, NoUpdate) EXCEPT !.pc = "done"]

\* Lines 37-49, 56-57: the asset loop and the test of its result
Checker_select(ck, assets, p) ==
    LET ck1 == [ck EXCEPT !.assets = assets]
        sel == SelectAsset(assets, p)
    IN  IF sel.raised THEN CheckerExcept(ck1)
        ELSE IF Truthy(sel.url)
             THEN [ck1 EXCEPT !.asset_url = sel.url, !.pc = "notes"]
             ELSE CheckerNoAsset(ck1)

\* release_info.get('body', 'No release notes available')
Notes(body) == IF body.t = "absent" THEN Str(S_default_notes) ELSE body

\* Lines 50-55: update_info is built and emitted
Checker_emit(ck, body) ==
    [Emit([ck EXCEPT !.body = body],
          UpdateAvailable([version |-> ck.latest_version,
                           url     |-> ck.asset_url.v,
                           notes   |-> Notes(body)]))
        EXCEPT !.pc = "done"]

NetResults == {[t |-> "exception", status |-> 0]}
                 \cup {[t |-> "http", status |-> s] : s \in Statuses}

\* The whole run on one complete response
\*   resp = [net, json_ok, tag_name, assets, body]
CheckerRun(resp, p) ==
    LET c1 == Checker_get(CheckerStart, resp.net)
        c2 == IF c1.pc = "json"
              THEN Checker_version(c1, resp.json_ok, resp.tag_name) ELSE c1
        c3 == IF c2.pc = "assets" THEN Checker_select(c2, resp.assets, p) ELSE c2
        c4 == IF c3.pc = "notes" THEN Checker_emit(c3, resp.body) ELSE c3
    IN  c4

CheckerGet ==
    /\ checker.pc = "get"
    /\ \E net \in NetResults : checker' = Checker_get(checker, net)
    /\ UNCHANGED <<platform, downloader, window, files>>

CheckerVersion ==
    /\ checker.pc = "json"
    /\ \E json_ok \in BOOLEAN, tag_name \in TagFields :
           /\ (~json_ok => tag_name = Absent)
           /\ checker' = Checker_version(checker, json_ok, tag_name)
    /\ UNCHANGED <<platform, downloader, window, files>>

CheckerSelect ==
    /\ checker.pc = "assets"
    /\ \E assets \in AssetFields :
           checker' = Checker_select(checker, assets, platform)
    /\ UNCHANGED <<platform, downloader, window, files>>

CheckerEmit ==
    /\ checker.pc = "notes"
    /\ \E body \in BodyFields : checker' = Checker_emit(checker, body)
    /\ UNCHANGED <<platform, downloader, window, files>>

DownloaderIdle == [pc |-> "idle"]
WindowIdle == [pc |-> "idle"]

\* tempfile.gettempdir() holding no file of interest
NoFiles == [p \in {} |-> <<>>]

InitChecker ==
    /\ platform \in Platforms
    /\ checker = CheckerStart
    /\ downloader = DownloaderIdle
    /\ window = WindowIdle
    /\ files = NoFiles

NextChecker == CheckerGet \/ CheckerVersion \/ CheckerSelect \/ CheckerEmit

SpecChecker == InitChecker /\ [][NextChecker]_vars

\* UpdateChecker.run on a whole 200 response: the JSON object the feed sent is
\* fixed first, whether or not the run comes to read each of its keys
FeedResponses ==
    [net : {[t |-> "http", status |-> HTTP_OK]}, json_ok : {TRUE},
     tag_name : TagFields, assets : AssetFields, body : BodyFields]

CheckerWhole ==
    /\ checker.pc = "feed"
    /\ checker' = [pc |-> "ran", resp |-> checker.resp,
                   run |-> CheckerRun(checker.resp, platform)]
    /\ UNCHANGED <<platform, downloader, window, files>>

InitFeed ==
    /\ platform \in Platforms
    /\ \E resp \in FeedResponses : checker = [pc |-> "feed", resp |-> resp]
    /\ downloader = DownloaderIdle
    /\ window = WindowIdle
    /\ files = NoFiles

NextFeed == CheckerWhole

SpecFeed == InitFeed /\ [][NextFeed]_vars

-----------------------------------------------------------------------------
(* Claims about UpdateChecker.run (checked under SpecChecker) *)

CheckerSignals == {"update_available", "no_update", "error_occurred"}

\* C3: a run emits at most one signal at any time, the signal is one of
\* update_available, no_update and error_occurred, emitting it is the last
\* thing the run does, and a finished run has emitted exactly one.
C3_ExactlyOneOutcome ==
    /\ Len(checker.emitted) <= 1
    /\ \A i \in 1..Len(checker.emitted) : checker.emitted[i].sig \in CheckerSignals
    /\ (checker.pc = "done") <=> (Len(checker.emitted) = 1)

\* C3 witness: a run that failed inside the asset loop has reported it
C3_Witness ==
    /\ checker.pc = "done"
    /\ checker.assets.t = "list"
    /\ checker.emitted = <<ErrorOccurred("exception")>>

\* The case of C13: the request is over and did not bring a 200 response
\* (checker.status stays 0 when requests.get raised: no response at all)
NoSuccessResponse == checker.pc # "get" /\ checker.status # HTTP_OK

\* C13: a feed response whose status is not 200, and a request that failed or
\* timed out, end the run with error_occurred as its only signal.
C13_Non200IsError ==
    NoSuccessResponse =>
        /\ checker.pc = "done"
        /\ Len(checker.emitted) = 1
        /\ checker.emitted[1].sig = "error_occurred"

\* C13 witness: a 201 response was reported as an HTTP failure
C13_Witness ==
    /\ checker.status = 201
    /\ checker.emitted = <<ErrorOccurred("http")>>

\* C14: the notes of every UpdateInfo emitted with update_available are a
\* string, whether the feed's body is a string, absent or null.
C14_NotesIsString ==
    \A i \in 1..Len(checker.emitted) :
        checker.emitted[i].sig = "update_available"
            => checker.emitted[i].info.notes.t = "str"

\* A release object whose structure is not the feed's: no tag_name, or assets
\* that are not a list of objects with a name and a browser_download_url
WellFormedAsset(asset) == asset.name.t = "str" /\ asset.url.t = "str"
Malformed(resp) ==
    \/ resp.tag_name.t = "absent"
    \/ resp.assets.t # "list"
    \/ \E i \in 1..Len(resp.assets.v) : ~WellFormedAsset(resp.assets.v[i])

\* C15: a 200 response with malformed structure ends in error_occurred,
\* whatever its version is (checked under SpecFeed).
C15_MalformedIsError ==
    (checker.pc = "ran" /\ Malformed(checker.resp)) =>
        /\ Len(checker.run.emitted) = 1
        /\ checker.run.emitted[1].sig = "error_occurred"

\* tag[1:] if tag starts with 'v', else tag: one optional leading 'v' removed
StripOneV(tag) == IF tag # <<>> /\ Head(tag) = "v" THEN Tail(tag) ELSE tag

\* A segment that is a non-negative integer: one or more decimal digits
NonNegativeInteger(seg) ==
    seg # <<>> /\ \A i \in 1..Len(seg) : IsDigit(seg[i])

\* A version string every segment of which is a non-negative integer
WellFormedVersion(s) ==
    \A i \in 1..Len(split_dot(s)) : NonNegativeInteger(split_dot(s)[i])

\* The case of C16: the tag has been read and, one leading 'v' removed, it or
\* the current version has a segment that is not a non-negative integer
BadVersionRead ==
    /\ checker.pc \notin {"get", "json"}
    /\ checker.tag_name.t = "str"
    /\ \/ ~WellFormedVersion(StripOneV(checker.tag_name.v))
       \/ ~WellFormedVersion(APP_VERSION)

\* C16: a tag that, one optional leading 'v' removed, has a segment that is
\* not a non-negative integer ends the run in error_occurred.
C16_BadSegmentIsError ==
    BadVersionRead =>
        /\ checker.pc = "done"
        /\ Len(checker.emitted) = 1
        /\ checker.emitted[1].sig = "error_occurred"

\* The version a feed tag denotes: the tag without its leading 'v's, as integers
TagParts(tag) == ParseParts(lstrip_v(tag))

\* a is strictly greater than b once both are padded with zeros: they agree
\* before some position, and a is larger there
StrictlyNewer(a, b) ==
    LET n == Max(Len(a), Len(b))
        pa == Pad(a, n)
        pb == Pad(b, n)
    IN  \E k \in 1..n : /\ \A j \in 1..(k - 1) : pa[j] = pb[j]
                        /\ pa[k] > pb[k]

FeedIsNewer ==
    /\ checker.tag_name.t = "str"
    /\ ~TagParts(checker.tag_name.v).raised
    /\ StrictlyNewer(TagParts(checker.tag_name.v).val, ParseParts(APP_VERSION).val)

\* The platform's match rule, as the specification words it
RuleSatisfied(name) ==
    \/ StartsWith(platform, S_win) /\ EndsWith(name, S_exe)
    \/ StartsWith(platform, S_darwin) /\ Contains(Lower(name), S_mac)
    \/ StartsWith(platform, S_linux) /\ Contains(Lower(name), S_linux)

AssetSatisfies(asset) == asset.name.t = "str" /\ RuleSatisfied(asset.name.v)

\* C9: whenever update_available is emitted, the feed's version is strictly
\* newer than APP_VERSION and the emitted url is the browser_download_url of
\* the first asset, in feed order, whose name satisfies the platform's rule.
C9_FirstMatchingAsset ==
    \A e \in 1..Len(checker.emitted) :
        checker.emitted[e].sig = "update_available" =>
            /\ FeedIsNewer
            /\ checker.assets.t = "list"
            /\ \E i \in 1..Len(checker.assets.v) :
                   /\ AssetSatisfies(checker.assets.v[i])
                   /\ \A j \in 1..(i - 1) : ~AssetSatisfies(checker.assets.v[j])
                   /\ checker.assets.v[i].url = Str(checker.emitted[e].info.url)

\* C9 witness: assets [app-win.exe, app-linux.tar.gz] on linux, the second
\* asset's URL is emitted
C9_Witness ==
    /\ platform = S_linux
    /\ checker.assets = List(<<[name |-> Str(N_win), url |-> Str(U1)],
                               [name |-> Str(N_linux), url |-> Str(U2)]>>)
    /\ Len(checker.emitted) = 1
    /\ checker.emitted[1].sig = "update_available"
    /\ checker.emitted[1].info.url = U2

\* The case of C10: a 200 response whose version is strictly newer and whose
\* assets all carry a name, none of which satisfies the platform's rule
NewerWithoutMatch ==
    /\ checker.status = HTTP_OK
    /\ FeedIsNewer
    /\ checker.assets.t = "list"
    /\ \A i \in 1..Len(checker.assets.v) :
           /\ checker.assets.v[i].name.t = "str"
           /\ ~RuleSatisfied(checker.assets.v[i].name.v)

\* C10: a 200 response with a strictly newer version and no asset name that
\* satisfies the platform's rule ends in no_update, and in nothing else.
C10_NoMatchIsNoUpdate ==
    NewerWithoutMatch => checker.pc = "done" /\ checker.emitted = <<NoUpdate>>

\* C10 witness: a newer release that only has a Windows asset, on linux
C10_Witness ==
    /\ platform = S_linux
    /\ NewerWithoutMatch
    /\ checker.assets = List(<<[name |-> Str(N_win), url |-> Str(U1)]>>)
    /\ checker.emitted = <<NoUpdate>>

-----------------------------------------------------------------------------
(* UpdateDownloader.run, statement by statement.  downloader.events is the   *)
(* sequence of signals the run has emitted; downloader.written is the number *)
(* of bytes written through the run's file object, which is the position of  *)
(* its handle (-1 before open() has created it).  A byte is a pair           *)
(* <<origin, index>>: the index-th byte of the body served at the URL        *)
(* `origin`.  file.write hands the chunk to a BufferedWriter, which passes   *)
(* it on at the latest when the `with` block closes the file; the bytes land *)
(* at the handle's position whenever that happens, so a write is modelled as *)
(* landing within the step that makes it.                                    *)

ProgressUpdated(v) == [sig |-> "progress_updated", value |-> v]
DownloadFinished(path) == [sig |-> "download_finished", path |-> path]
DownloadFailed == [sig |-> "download_failed"]

\* os.path.basename(url): what follows the last '/'
RECURSIVE basename(_)
basename(url) ==
    IF \E i \in 1..Len(url) : url[i] = "/"
    THEN basename(Tail(url))
    ELSE url

\* tempfile.gettempdir()
S_tmp == <<"/", "t", "m", "p">>

\* os.path.join(temp_dir, self.filename)
FilePath(filename) == S_tmp \o <<"/">> \o filename

\* The n bytes that follow the first `from` bytes of the body served at url
Received(url, from, n) == [k \in 1..n |-> <<url, from + k>>]

\* A byte of a hole: what the file system reads back where nothing was written
NUL == <<<<>>, 0>>

\* Line 95, open(file_path, 'wb'): the file is created, or truncated to nothing
File_open(fs, path) ==
    [p \in (DOMAIN fs) \cup {path} |-> IF p = path THEN <<>> ELSE fs[p]]

\* Mutant: every write starts the file over, as if the file were opened
\* inside the chunk loop
File_write_restart(fs, path, offset, bytes) ==
    [fs EXCEPT ![path] = bytes]

\* Line 99, file.write(chunk) through a handle at `offset`: the bytes replace
\* or extend what is there; a gap between the end of the file and the offset
\* reads back as zero bytes
File_write(fs, path, offset, bytes) ==
    LET old == fs[path]
        end == offset + Len(bytes)
        n == IF Len(old) > end THEN Len(old) ELSE end
    IN  [fs EXCEPT ![path] =
            [i \in 1..n |->
                IF i > offset /\ i <= end THEN bytes[i - offset]
                ELSE IF i <= Len(old) THEN old[i]
                ELSE NUL]]

\* UpdateDownloader(url, filename) before start()
DownloaderStart(url) ==
    [pc |-> "get", url |-> url, filename |-> basename(url),
     content_length |-> Absent, total_size |-> 0, downloaded |-> 0,
     chunks |-> 0, written |-> -1, events |-> <<>>]

\* str(n) of a non-negative integer
RECURSIVE Decimal(_)
Decimal(n) ==
    IF n < 10 THEN <<Digits[n + 1]>>
    ELSE Decimal(n \div 10) \o <<Digits[(n % 10) + 1]>>

\* content-length headers a response may carry: none, a byte count, a
\* negative number, not a number
S_minus1 == <<"-", "1">>
S_chunked == <<"x">>
ContentLengths ==
    {Absent, Str(S_minus1), Str(S_chunked)}
        \cup {Str(Decimal(n)) : n \in 0..MaxTotal}

\* Mutant: a response without the header is given a total of 1
TotalSize_defaultOne(header) ==
    IF header.t = "absent" THEN [raised |-> FALSE, val |-> 1] ELSE int(header.v)

\* int(response.headers.get('content-length', 0)); raised = ValueError
TotalSize(header) ==
    IF header.t = "absent" THEN [raised |-> FALSE, val |-> 0] ELSE int(header.v)

\* int((downloaded / total_size) * 100).  The float quotient is truncated;
\* for the totals of this model (below 10) it equals the integer quotient,
\* from 10 on the float product can fall one below it (23/10*100 gives 229).
Progress(downloaded, total_size) == (downloaded * 100) \div total_size

DlEmit(dl, signal) == [dl EXCEPT !.events = Append(@, signal)]

\* Mutant: download_finished is emitted from a `finally`, after the failure too
DownloaderExcept_finally(dl) ==
    [DlEmit(DlEmit(dl, DownloadFailed), DownloadFinished(FilePath(dl.filename)))
        EXCEPT !.pc = "done"]

\* Lines 106-107: the handler of the try block
DownloaderExcept(dl) == [DlEmit(dl, DownloadFailed) EXCEPT !.pc = "done"]

\* Lines 89-90: the request and the content-length header
Downloader_get(dl, ok, header) ==
    IF ~ok THEN DownloaderExcept(dl)
    ELSE LET dl1 == [dl EXCEPT !.content_length = header]
             total == TotalSize(header)
         IN  IF total.raised THEN DownloaderExcept(dl1)
             ELSE [dl1 EXCEPT !.total_size = total.val, !.pc = "open"]

\* Lines 92-96: the destination is created or truncated
Downloader_open(dl, ok) ==
    IF ~ok THEN DownloaderExcept(dl)
    ELSE [dl EXCEPT !.written = 0, !.downloaded = 0, !.pc = "read"]

\* Mutant: `downloaded = len(chunk)` for `downloaded += len(chunk)`
Downloader_chunk_noSum(dl, ok, size) ==
    IF ~ok THEN DownloaderExcept(dl)
    ELSE IF size = 0 THEN [dl EXCEPT !.chunks = @ + 1]
    ELSE LET dl1 == [dl EXCEPT !.chunks = @ + 1, !.written = @ + size,
                                !.downloaded = size]
         IN  IF dl1.total_size > 0
             THEN DlEmit(dl1, ProgressUpdated(Progress(dl1.downloaded, dl1.total_size)))
             ELSE dl1

\* Lines 97-103: one iteration of the chunk loop; ~ok = iter_content or
\* file.write raised
Downloader_chunk(dl, ok, size) ==
    IF ~ok THEN DownloaderExcept(dl)
    ELSE IF size = 0 THEN [dl EXCEPT !.chunks = @ + 1]
    ELSE LET dl1 == [dl EXCEPT !.chunks = @ + 1, !.written = @ + size,
                                !.downloaded = @ + size]
         IN  IF dl1.total_size > 0
             THEN DlEmit(dl1, ProgressUpdated(Progress(dl1.downloaded, dl1.total_size)))
             ELSE dl1

\* Line 105: the stream is exhausted, the file closed
Downloader_finish(dl) ==
    [DlEmit(dl, DownloadFinished(FilePath(dl.filename))) EXCEPT !.pc = "done"]

DownloaderGet ==
    /\ downloader.pc = "get"
    /\ \E ok \in BOOLEAN, header \in ContentLengths :
           /\ (~ok => header = Absent)
           /\ downloader' = Downloader_get(downloader, ok, header)
    /\ UNCHANGED <<platform, checker, window, files>>

DownloaderOpen ==
    /\ downloader.pc = "open"
    /\ \E ok \in BOOLEAN :
           /\ downloader' = Downloader_open(downloader, ok)
           /\ files' = IF ok THEN File_open(files, FilePath(downloader.filename))
                             ELSE files
    /\ UNCHANGED <<platform, checker, window>>

DownloaderChunk ==
    /\ downloader.pc = "read"
    /\ downloader.chunks < MaxChunks
    /\ \E ok \in BOOLEAN, size \in 0..MaxChunkLen :
           /\ (~ok => size = 0)
           /\ downloader' = Downloader_chunk(downloader, ok, size)
           /\ files' = IF size > 0
                       THEN File_write(files, FilePath(downloader.filename),
                                       downloader.written,
                                       Received(downloader.url,
                                                downloader.written, size))
                       ELSE files
    /\ UNCHANGED <<platform, checker, window>>

DownloaderFinish ==
    /\ downloader.pc = "read"
    /\ downloader' = Downloader_finish(downloader)
    /\ UNCHANGED <<platform, checker, window, files>>

CheckerIdle == [pc |-> "idle"]

\* What an earlier download left at the path
S_old == <<"o", "l", "d">>
StaleFile(path) == [p \in {path} |-> Received(S_old, 0, MaxTotal)]

InitDownloader ==
    /\ platform \in Platforms
    /\ checker = CheckerIdle
    /\ \E url \in {U1, U2} :
           /\ downloader = DownloaderStart(url)
           /\ files \in {NoFiles, StaleFile(FilePath(basename(url)))}
    /\ window = WindowIdle

NextDownloader ==
    DownloaderGet \/ DownloaderOpen \/ DownloaderChunk \/ DownloaderFinish

SpecDownloader == InitDownloader /\ [][NextDownloader]_vars

\* Several UpdateDownloader threads and the directory they write to.  Under
\* SpecFiles `downloader` is the sequence of the runs started so far, in the
\* order of their start; the threads take their steps in any order.  Nothing
\* in download_update waits for a running download, so a run can be started
\* while another is at any statement.  The responses carry no content-length.

\* Lines 227-231 of download_update: a thread is created and started
FilesStart ==
    /\ Len(downloader) < MaxThreads
    /\ \E url \in {U1, U2} : downloader' = Append(downloader, DownloaderStart(url))
    /\ UNCHANGED <<platform, checker, window, files>>

FilesGet ==
    \E i \in 1..Len(downloader) :
        /\ downloader[i].pc = "get"
        /\ \E ok \in BOOLEAN :
               downloader' = [downloader EXCEPT ![i] = Downloader_get(@, ok, Absent)]
        /\ UNCHANGED <<platform, checker, window, files>>

FilesOpen ==
    \E i \in 1..Len(downloader) :
        /\ downloader[i].pc = "open"
        /\ \E ok \in BOOLEAN :
               /\ downloader' = [downloader EXCEPT ![i] = Downloader_open(@, ok)]
               /\ files' = IF ok
                           THEN File_open(files, FilePath(downloader[i].filename))
                           ELSE files
        /\ UNCHANGED <<platform, checker, window>>

FilesChunk ==
    \E i \in 1..Len(downloader) :
        /\ downloader[i].pc = "read"
        /\ downloader[i].chunks < MaxChunks
        /\ \E ok \in BOOLEAN, size \in 0..MaxChunkLen :
               /\ (~ok => size = 0)
               /\ downloader' =
                      [downloader EXCEPT ![i] = Downloader_chunk(@, ok, size)]
               /\ files' = IF size > 0
                           THEN File_write(files, FilePath(downloader[i].filename),
                                           downloader[i].written,
                                           Received(downloader[i].url,
                                                    downloader[i].written, size))
                           ELSE files
        /\ UNCHANGED <<platform, checker, window>>

FilesFinish ==
    \E i \in 1..Len(downloader) :
        /\ downloader[i].pc = "read"
        /\ downloader' = [downloader EXCEPT ![i] = Downloader_finish(@)]
        /\ UNCHANGED <<platform, checker, window, files>>

InitFiles ==
    /\ platform \in Platforms
    /\ checker = CheckerIdle
    /\ downloader = <<>>
    /\ window = WindowIdle
    /\ files = NoFiles

NextFiles == FilesStart \/ FilesGet \/ FilesOpen \/ FilesChunk \/ FilesFinish

SpecFiles == InitFiles /\ [][NextFiles]_vars

-----------------------------------------------------------------------------
(* Claims about UpdateDownloader.run (checked under SpecDownloader) *)

IsTerminal(e) == e.sig \in {"download_finished", "download_failed"}
IsProgress(e) == e.sig = "progress_updated"
Terminals == {i \in 1..Len(downloader.events) : IsTerminal(downloader.events[i])}
Progresses == {i \in 1..Len(downloader.events) : IsProgress(downloader.events[i])}

\* C4: a download emits at most one terminal event, a terminal event is the
\* last event of the run, and a finished run has emitted exactly one.
C4_OneTerminalLast ==
    /\ Cardinality(Terminals) <= 1
    /\ \A i \in Terminals : i = Len(downloader.events)
    /\ (downloader.pc = "done") <=> (Cardinality(Terminals) = 1)

\* C4 witness: the stream failed after progress had been reported
C4_Witness ==
    /\ downloader.pc = "done"
    /\ Len(downloader.events) >= 3
    /\ downloader.events[Len(downloader.events)] = DownloadFailed
    /\ \A i \in 1..(Len(downloader.events) - 1) : IsProgress(downloader.events[i])

\* C5: every progress value a download emits lies in 0..100, also when the
\* stream delivers more bytes than the content-length declares.
C5_ProgressInRange ==
    \A i \in Progresses : downloader.events[i].value \in 0..100

\* C6: the progress values of a download are non-decreasing.
C6_ProgressMonotone ==
    \A i, j \in Progresses :
        i < j => downloader.events[i].value <= downloader.events[j].value

\* C6 witness: three progress events whose values grow
C6_Witness ==
    /\ Cardinality(Progresses) = 3
    /\ \A i, j \in Progresses :
           i < j => downloader.events[i].value < downloader.events[j].value

\* C7: without a content-length header a download emits no progress event,
\* and when it ends it has emitted exactly one terminal event.
C7_NoLengthNoProgress ==
    (downloader.pc # "get" /\ downloader.content_length.t = "absent") =>
        /\ Progresses = {}
        /\ downloader.pc = "done" => Cardinality(Terminals) = 1

\* C7 witness: a stream without content-length delivered bytes and finished
C7_Witness ==
    /\ downloader.content_length.t = "absent"
    /\ downloader.written >= 2
    /\ downloader.events = <<DownloadFinished(FilePath(downloader.filename))>>

\* The case of C12: the run has ended in download_failed after it had opened
\* the destination file
InterruptedDownload ==
    /\ downloader.pc = "done"
    /\ downloader.events # <<>>
    /\ downloader.events[Len(downloader.events)] = DownloadFailed
    /\ downloader.written >= 0

\* C12: a download that fails after N bytes were written has emitted
\* download_failed and leaves the destination file in place, holding exactly
\* the N bytes received, in order: nothing is deleted or truncated.
C12_PartialFileKept ==
    InterruptedDownload =>
        /\ FilePath(downloader.filename) \in DOMAIN files
        /\ files[FilePath(downloader.filename)]
               = Received(downloader.url, 0, downloader.written)

\* C12 witness: the stream broke after two chunks, three bytes are on disk
C12_Witness ==
    /\ InterruptedDownload
    /\ downloader.chunks = 2
    /\ downloader.written = 3
    /\ Len(files[FilePath(downloader.filename)]) = 3

\* Run i emits download_finished in this step
Finishes(i) ==
    /\ downloader[i].pc = "read"
    /\ downloader'[i].pc = "done"
    /\ downloader'[i].events[Len(downloader'[i].events)]
           = DownloadFinished(FilePath(downloader[i].filename))

\* C19: when a run emits download_finished(path), the file at path holds
\* exactly the bytes the run received, in order, also when another download
\* to the same filename was started before the run finished (checked under
\* SpecFiles).
C19_FinishedFileIsOwn ==
    [][\A i \in 1..Len(downloader) :
          Finishes(i) =>
              /\ FilePath(downloader[i].filename) \in DOMAIN files'
              /\ files'[FilePath(downloader[i].filename)]
                     = Received(downloader[i].url, 0, downloader'[i].written)]_vars

-----------------------------------------------------------------------------
(* MainWindow and the Qt event loop.                                         *)
(*                                                                           *)
(* window.timer     QTimer.singleShot(3000, check_for_updates) is pending    *)
(* window.enabled   check_update_btn.isEnabled()                             *)
(* window.checkers  the UpdateChecker threads started and still running,     *)
(*                  oldest first; `orphan` = self.update_checker no longer   *)
(*                  refers to the thread                                     *)
(* window.downloaders  the same for UpdateDownloader, with url and filename  *)
(* window.queue     signals emitted by worker threads and not yet delivered  *)
(*                  to their slot (queued connections, first in first out)   *)
(* window.dialogs   the modal QMessageBox dialogs open, innermost last; each *)
(*                  runs a nested event loop, so timers and queued signals   *)
(*                  are still delivered while the user has not answered      *)
(* window.confirmed the file paths whose install the user answered Ok to     *)
(* window.install   what the last install_update did                         *)
(* window.quit      QApplication.quit() has been called                      *)
(* window.aborted   Qt ended the process (qFatal)                            *)
(*                                                                           *)
(* status_label, progress_bar and text_area are only written, never read,    *)
(* and are left out; so are the progress_updated signals, whose slot is      *)
(* progress_bar.setValue.                                                    *)

NoInstall == [called |-> FALSE]

\* MainWindow.__init__
WindowStart ==
    [timer |-> TRUE, enabled |-> TRUE, checkers |-> <<>>, downloaders |-> <<>>,
     queue |-> <<>>, dialogs |-> <<>>, confirmed |-> {}, install |-> NoInstall,
     quit |-> FALSE, aborted |-> FALSE]

\* The event loop is running
Live(w) == ~w.quit /\ ~w.aborted

\* self.update_checker = ... / self.downloader = ...: the threads started
\* before lose their only Python reference
Orphaned(threads) == [i \in 1..Len(threads) |-> [threads[i] EXCEPT !.orphan = TRUE]]

\* MainWindow.check_for_updates
check_for_updates(w) ==
    [w EXCEPT !.enabled = FALSE,
              !.checkers = Append(Orphaned(@), [orphan |-> FALSE])]

\* MainWindow.download_update
download_update(w, url) ==
    [w EXCEPT !.downloaders =
                  Append(Orphaned(@), [orphan |-> FALSE, url |-> url,
                                       filename |-> basename(url)])]

\* QMessageBox.question / QMessageBox.critical: the dialog opens and the
\* handler waits in its exec() for the answer
OpenDialog(w, dialog) == [w EXCEPT !.dialogs = Append(@, dialog)]

\* Mutant: the download starts as soon as the update is known, unasked
on_update_available_unasked(w, info) ==
    [raised |-> FALSE, w |-> download_update([w EXCEPT !.enabled = TRUE], info.url)]

\* Lines 196-208 of on_update_available, up to the dialog.
\* update_info['notes'][:200] raises TypeError when notes is not a string.
on_update_available(w, info) ==
    LET w1 == [w EXCEPT !.enabled = TRUE]
    IN  IF info.notes.t # "str"
        THEN [raised |-> TRUE, w |-> w1]
        ELSE [raised |-> FALSE, w |-> OpenDialog(w1, [kind |-> "update", info |-> info])]

\* MainWindow.on_no_update
on_no_update(w) == [w EXCEPT !.enabled = TRUE]

\* MainWindow.on_update_error
on_update_error(w) == [w EXCEPT !.enabled = TRUE]

\* Lines 233-245 of on_download_finished, up to the dialog
on_download_finished(w, path) == OpenDialog(w, [kind |-> "install", path |-> path])

\* MainWindow.on_download_failed
on_download_failed(w) == OpenDialog(w, [kind |-> "critical"])

S_open == <<"o", "p", "e", "n">>

\* os.chmod(path, 0o755) and subprocess.Popen(argv); ok = the call returned
Chmod(path, ok) == [op |-> "chmod", path |-> path, argv |-> <<>>, ok |-> ok]
Popen(argv, ok) == [op |-> "Popen", path |-> <<>>, argv |-> argv, ok |-> ok]

\* What install_update does with the file:
\*   calls    the system calls made, in order
\*   chmod    os.chmod was called          argv   the Popen argument, if called
\*   spawned  Popen returned a process     quit   QApplication.quit() was called
\*   error    the handler of line 272 ran
InstallResult(path, calls, quit) ==
    LET spawns == SelectSeq(calls, LAMBDA c : c.op = "Popen")
    IN  [called |-> TRUE, path |-> path, calls |-> calls,
         chmod |-> \E k \in 1..Len(calls) : calls[k].op = "chmod",
         argv |-> IF spawns = <<>> THEN <<>> ELSE spawns[1].argv,
         spawned |-> \E k \in 1..Len(spawns) : spawns[k].ok,
         quit |-> quit, error |-> ~quit]

\* Mutant: QApplication.quit() moved after the try statement
install_update_quitAlways(path, p, chmod_ok, popen_ok) ==
    LET rule == PlatformRule(p)
    IN  CASE rule = "win" -> InstallResult(path, <<Popen(<<path>>, popen_ok)>>, TRUE)
          [] rule = "darwin" ->
                 InstallResult(path, <<Popen(<<S_open, path>>, popen_ok)>>, TRUE)
          [] rule = "linux" ->
                 IF chmod_ok
                 THEN InstallResult(path, <<Chmod(path, TRUE),
                                            Popen(<<path>>, popen_ok)>>, TRUE)
                 ELSE InstallResult(path, <<Chmod(path, FALSE)>>, TRUE)
          [] OTHER -> InstallResult(path, <<>>, TRUE)

\* Mutant: on Linux the file is spawned first and made executable afterwards
install_update_spawnFirst(path, p, chmod_ok, popen_ok) ==
    LET rule == PlatformRule(p)
    IN  CASE rule = "win" ->
                 InstallResult(path, <<Popen(<<path>>, popen_ok)>>, popen_ok)
          [] rule = "darwin" ->
                 InstallResult(path, <<Popen(<<S_open, path>>, popen_ok)>>, popen_ok)
          [] rule = "linux" ->
                 IF popen_ok
                 THEN InstallResult(path, <<Popen(<<path>>, TRUE),
                                            Chmod(path, chmod_ok)>>, chmod_ok)
                 ELSE InstallResult(path, <<Popen(<<path>>, FALSE)>>, FALSE)
          [] OTHER -> InstallResult(path, <<>>, TRUE)

\* MainWindow.install_update, lines 257-275; chmod_ok and popen_ok say whether
\* os.chmod and subprocess.Popen return or raise
install_update(path, p, chmod_ok, popen_ok) ==
    LET rule == PlatformRule(p)
    IN  CASE rule = "win" ->
                 InstallResult(path, <<Popen(<<path>>, popen_ok)>>, popen_ok)
          [] rule = "darwin" ->
                 InstallResult(path, <<Popen(<<S_open, path>>, popen_ok)>>, popen_ok)
          [] rule = "linux" ->
                 IF chmod_ok
                 THEN InstallResult(path, <<Chmod(path, TRUE),
                                            Popen(<<path>>, popen_ok)>>, popen_ok)
                 ELSE InstallResult(path, <<Chmod(path, FALSE)>>, FALSE)
          [] OTHER -> InstallResult(path, <<>>, TRUE)

\* The rest of on_download_finished once the user answered Ok (lines 247-248)
InstallConfirmed(w, path, p, chmod_ok, popen_ok) ==
    LET res == install_update(path, p, chmod_ok, popen_ok)
        w1  == [w EXCEPT !.confirmed = @ \cup {path}, !.install = res,
                         !.quit = res.quit]
    IN  IF res.error THEN OpenDialog(w1, [kind |-> "critical"]) ELSE w1

\* Remove element i of a sequence
Without(seq, i) == SubSeq(seq, 1, i - 1) \o SubSeq(seq, i + 1, Len(seq))

-----------------------------------------------------------------------------
(* Responses the worker threads of the window meet *)

AllAssets(url) ==
    List(<<[name |-> Str(N_win), url |-> Str(url)],
           [name |-> Str(N_linux), url |-> Str(url)],
           [name |-> Str(N_mac), url |-> Str(url)]>>)

Feed(net, tag, url, body) ==
    [net |-> net, json_ok |-> TRUE, tag_name |-> Str(tag),
     assets |-> AllAssets(url), body |-> body]

Http(status) == [t |-> "http", status |-> status]

\* an unreachable feed, the running version, and three newer releases: with
\* release notes, without a body, with a null body
WindowFeeds ==
    { Feed([t |-> "exception", status |-> 0], <<"2">>, U1, Absent),
      Feed(Http(HTTP_OK), <<"v", "1", ".", "0", ".", "0">>, U1, Str(S_notes)),
      Feed(Http(HTTP_OK), <<"2">>, U1, Str(S_notes)),
      Feed(Http(HTTP_OK), <<"v", "1", ".", "0", ".", "1">>, U2, Absent),
      Feed(Http(HTTP_OK), <<"2">>, U1, Null) }

\* The chunk loop on a whole stream: chunks is a sequence of [ok, size]
RECURSIVE DownloaderChunks(_, _)
DownloaderChunks(dl, chunks) ==
    IF dl.pc # "read" THEN dl
    ELSE IF chunks = <<>> THEN Downloader_finish(dl)
    ELSE DownloaderChunks(Downloader_chunk(dl, Head(chunks).ok, Head(chunks).size),
                          Tail(chunks))

\* The whole run on one complete stream
\*   inp = [get_ok, header, open_ok, chunks]
DownloaderRun(url, inp) ==
    LET d1 == Downloader_get(DownloaderStart(url), inp.get_ok, inp.header)
        d2 == IF d1.pc = "open" THEN Downloader_open(d1, inp.open_ok) ELSE d1
    IN  DownloaderChunks(d2, inp.chunks)

\* a complete stream, a stream cut after its first chunk, a refused request
WindowStreams ==
    { [get_ok |-> TRUE, header |-> Str(Decimal(2)), open_ok |-> TRUE,
       chunks |-> <<[ok |-> TRUE, size |-> 2]>>],
      [get_ok |-> TRUE, header |-> Str(Decimal(2)), open_ok |-> TRUE,
       chunks |-> <<[ok |-> TRUE, size |-> 1], [ok |-> FALSE, size |-> 0]>>],
      [get_ok |-> FALSE, header |-> Absent, open_ok |-> TRUE, chunks |-> <<>>] }

\* The signals of a run that have a slot other than progress_bar.setValue
Outcomes(events) == SelectSeq(events, LAMBDA e : e.sig # "progress_updated")

\* What a checker thread can emit on platform p, over the feeds above
CheckerEmissions == [p \in Platforms |-> {CheckerRun(feed, p).emitted : feed \in WindowFeeds}]

\* What a downloader thread of the given url can emit, over the streams above
DownloaderEmissions ==
    [url \in {U1, U2} |-> {Outcomes(DownloaderRun(url, inp).events) : inp \in WindowStreams}]

-----------------------------------------------------------------------------
(* The steps of the application: timer, user, worker threads, event loop *)

\* A QThread object that is destroyed while its thread runs ends the process
\* (qFatal "Destroyed while thread is still running").  The object is
\* destroyed when its last Python reference goes: at once when the attribute
\* is overwritten and run() has not been entered yet, when run() returns
\* otherwise.  `fatal` says whether that happened.
Destroyed(w, fatal) == [w EXCEPT !.aborted = fatal]

\* QTimer.singleShot(3000, self.check_for_updates) fires
TimerFires ==
    /\ Live(window) /\ window.timer
    /\ Len(window.checkers) < MaxThreads
    /\ \E fatal \in BOOLEAN :
           /\ fatal => window.checkers # <<>>
           /\ window' = Destroyed(check_for_updates([window EXCEPT !.timer = FALSE]),
                                  fatal)
    /\ UNCHANGED <<platform, checker, downloader, files>>

\* The user clicks check_update_btn: it is enabled and no modal dialog
\* blocks the window
ClickCheck ==
    /\ Live(window) /\ window.enabled /\ window.dialogs = <<>>
    /\ Len(window.checkers) < MaxThreads
    /\ \E fatal \in BOOLEAN :
           /\ fatal => window.checkers # <<>>
           /\ window' = Destroyed(check_for_updates(window), fatal)
    /\ UNCHANGED <<platform, checker, downloader, files>>

\* An UpdateChecker thread runs to its end against some feed response
CheckerThread ==
    /\ Live(window)
    /\ \E i \in 1..Len(window.checkers), emitted \in CheckerEmissions[platform],
          fatal \in BOOLEAN :
           /\ Len(window.queue) + Len(emitted) <= MaxQueue
           /\ fatal => window.checkers[i].orphan
           /\ window' = Destroyed([window EXCEPT !.checkers = Without(@, i),
                                                 !.queue = @ \o emitted], fatal)
    /\ UNCHANGED <<platform, checker, downloader, files>>

\* An UpdateDownloader thread runs to its end against some stream
DownloaderThread ==
    /\ Live(window)
    /\ \E i \in 1..Len(window.downloaders), fatal \in BOOLEAN :
         \E emitted \in DownloaderEmissions[window.downloaders[i].url] :
           /\ Len(window.queue) + Len(emitted) <= MaxQueue
           /\ fatal => window.downloaders[i].orphan
           /\ window' = Destroyed([window EXCEPT !.downloaders = Without(@, i),
                                                 !.queue = @ \o emitted], fatal)
    /\ UNCHANGED <<platform, checker, downloader, files>>

\* The event loop takes the first queued signal
Next_signal(w) == Head(w.queue)
Taken(w) == [w EXCEPT !.queue = Tail(@)]

\* update_available reaches on_update_available.  An exception that leaves a
\* slot ends the process (PyQt5 from 5.5 on) or is printed and dropped.
DeliverUpdateAvailable ==
    /\ Live(window) /\ window.queue # <<>>
    /\ Next_signal(window).sig = "update_available"
    /\ Len(window.dialogs) < MaxDialogs
    /\ \E fatal \in BOOLEAN :
           LET r == on_update_available(Taken(window), Next_signal(window).info)
           IN  /\ fatal => r.raised
               /\ window' = [r.w EXCEPT !.aborted = fatal]
    /\ UNCHANGED <<platform, checker, downloader, files>>

DeliverNoUpdate ==
    /\ Live(window) /\ window.queue # <<>>
    /\ Next_signal(window).sig = "no_update"
    /\ window' = on_no_update(Taken(window))
    /\ UNCHANGED <<platform, checker, downloader, files>>

DeliverError ==
    /\ Live(window) /\ window.queue # <<>>
    /\ Next_signal(window).sig = "error_occurred"
    /\ window' = on_update_error(Taken(window))
    /\ UNCHANGED <<platform, checker, downloader, files>>

DeliverDownloadFinished ==
    /\ Live(window) /\ window.queue # <<>>
    /\ Next_signal(window).sig = "download_finished"
    /\ Len(window.dialogs) < MaxDialogs
    /\ window' = on_download_finished(Taken(window), Next_signal(window).path)
    /\ UNCHANGED <<platform, checker, downloader, files>>

DeliverDownloadFailed ==
    /\ Live(window) /\ window.queue # <<>>
    /\ Next_signal(window).sig = "download_failed"
    /\ Len(window.dialogs) < MaxDialogs
    /\ window' = on_download_failed(Taken(window))
    /\ UNCHANGED <<platform, checker, downloader, files>>

\* The innermost dialog, the only one the user can answer
TopDialog(w) == w.dialogs[Len(w.dialogs)]
Closed(w) == [w EXCEPT !.dialogs = SubSeq(@, 1, Len(@) - 1)]

\* The user answers "Update Available"; Yes runs line 211
AnswerUpdate ==
    /\ Live(window) /\ window.dialogs # <<>>
    /\ TopDialog(window).kind = "update"
    /\ \/ window' = Closed(window)
       \/ /\ Len(window.downloaders) < MaxThreads
          /\ \E fatal \in BOOLEAN :
                 /\ fatal => window.downloaders # <<>>
                 /\ window' = Destroyed(download_update(Closed(window),
                                                        TopDialog(window).info.url),
                                        fatal)
    /\ UNCHANGED <<platform, checker, downloader, files>>

\* The user answers "Install Update"; Ok runs line 248
AnswerInstall ==
    /\ Live(window) /\ window.dialogs # <<>>
    /\ TopDialog(window).kind = "install"
    /\ \/ window' = Closed(window)
       \/ \E chmod_ok \in BOOLEAN, popen_ok \in BOOLEAN :
              window' = InstallConfirmed(Closed(window), TopDialog(window).path,
                                         platform, chmod_ok, popen_ok)
    /\ UNCHANGED <<platform, checker, downloader, files>>

\* The user closes a QMessageBox.critical
AnswerCritical ==
    /\ Live(window) /\ window.dialogs # <<>>
    /\ TopDialog(window).kind = "critical"
    /\ window' = Closed(window)
    /\ UNCHANGED <<platform, checker, downloader, files>>

Init ==
    /\ platform \in Platforms
    /\ checker = CheckerIdle
    /\ downloader = DownloaderIdle
    /\ window = WindowStart
    /\ files = NoFiles

Next ==
    \/ TimerFires
    \/ ClickCheck
    \/ CheckerThread
    \/ DownloaderThread
    \/ DeliverUpdateAvailable
    \/ DeliverNoUpdate
    \/ DeliverError
    \/ DeliverDownloadFinished
    \/ DeliverDownloadFailed
    \/ AnswerUpdate
    \/ AnswerInstall
    \/ AnswerCritical

Spec == Init /\ [][Next]_vars

-----------------------------------------------------------------------------
(* Claims about MainWindow (checked under Spec) *)

\* C1: in every reachable state at most one UpdateChecker thread is running.
C1_OneChecker == Len(window.checkers) <= 1

\* C2: in every reachable state at most one UpdateDownloader thread is running.
C2_OneDownloader == Len(window.downloaders) <= 1

\* C8: QApplication.quit() has been called only if install_update spawned a
\* process for the downloaded file and the user had answered Ok for that file;
\* an install whose chmod or spawn failed leaves the application running.
C8_QuitOnlyAfterSpawn ==
    /\ window.quit =>
           /\ window.install.called
           /\ window.install.spawned
           /\ window.install.argv # <<>>
           /\ window.install.argv[Len(window.install.argv)] = window.install.path
           /\ window.install.path \in window.confirmed
    /\ (window.install.called /\ ~window.install.spawned) => ~window.quit

\* C8 witness: on linux the file was made executable and spawned, and the
\* application was told to quit
C8_Witness ==
    /\ platform = S_linux
    /\ window.quit
    /\ window.install.chmod /\ window.install.spawned

\* A step that starts an UpdateDownloader: the user is answering the "Update
\* Available" dialog, and the thread gets the URL that dialog was opened with
DownloadStarted == Len(window'.downloaders) > Len(window.downloaders)
DownloadGated ==
    DownloadStarted =>
        /\ window.dialogs # <<>>
        /\ TopDialog(window).kind = "update"
        /\ window'.dialogs = Closed(window).dialogs
        /\ window'.downloaders[Len(window'.downloaders)].url
               = TopDialog(window).info.url

\* A step that runs install_update: the user is answering the "Install
\* Update" dialog, and the install is of the path that dialog was opened with
InstallAttempted == window'.install # window.install
InstallGated ==
    InstallAttempted =>
        /\ window.dialogs # <<>>
        /\ TopDialog(window).kind = "install"
        /\ window'.install.called
        /\ window'.install.path = TopDialog(window).path
        /\ window'.install.path \in window'.confirmed

\* A dialog of the next state that the current state does not have
Opened(i) ==
    /\ i \in 1..Len(window'.dialogs)
    /\ i > Len(window.dialogs) \/ window.dialogs[i] # window'.dialogs[i]

\* A question dialog is opened only by the delivery of the signal it asks
\* about: update_available with its UpdateInfo, download_finished with its path
DialogGated ==
    \A i \in 1..Len(window'.dialogs) :
        /\ (Opened(i) /\ window'.dialogs[i].kind = "update") =>
               /\ window.queue # <<>>
               /\ Next_signal(window) = UpdateAvailable(window'.dialogs[i].info)
               /\ window'.queue = Tail(window.queue)
        /\ (Opened(i) /\ window'.dialogs[i].kind = "install") =>
               /\ window.queue # <<>>
               /\ Next_signal(window) = DownloadFinished(window'.dialogs[i].path)
               /\ window'.queue = Tail(window.queue)

\* A signal enters the queue only when the thread that emits it ends: a
\* checker for update_available, a downloader of that file for download_finished
SignalGated ==
    \A k \in (Len(window.queue) + 1)..Len(window'.queue) :
        /\ window'.queue[k].sig = "update_available" =>
               Len(window'.checkers) < Len(window.checkers)
        /\ window'.queue[k].sig = "download_finished" =>
               \E i \in 1..Len(window.downloaders) :
                   /\ window'.downloaders = Without(window.downloaders, i)
                   /\ window'.queue[k].path
                          = FilePath(window.downloaders[i].filename)

\* The delivery of no_update, error_occurred or download_failed starts nothing
DeadEnd ==
    (/\ window.queue # <<>>
     /\ window'.queue = Tail(window.queue)
     /\ Next_signal(window).sig \in {"no_update", "error_occurred", "download_failed"})
        => /\ window'.downloaders = window.downloaders
           /\ window'.install = window.install
           /\ window'.confirmed = window.confirmed

\* C17: the stages are gated.  A download is started only by a Yes to the
\* dialog of an emitted update_available, with that UpdateInfo's URL; an
\* install is attempted only by an Ok to the dialog of an emitted
\* download_finished, with that event's path; no_update, error_occurred and
\* download_failed start neither.
C17_StagesGated ==
    [][DownloadGated /\ InstallGated /\ DialogGated /\ SignalGated /\ DeadEnd]_vars

\* C17 witness: on Windows the file of the second URL went through the whole
\* pipeline and its install was attempted
C17_Witness ==
    /\ platform = S_win32
    /\ window.install.called
    /\ window.install.argv = <<FilePath(basename(U2))>>
    /\ window.confirmed = {FilePath(basename(U2))}

\* The Popen argument the platform calls for
Invocation(path) ==
    IF StartsWith(platform, S_darwin) THEN <<S_open, path>> ELSE <<path>>

\* C18: an install makes at most one Popen call, with the platform's
\* invocation of the downloaded file; on linux a Popen call comes only after
\* an os.chmod of the file that succeeded.
C18_OneSpawnAfterChmod ==
    window.install.called =>
        LET calls == window.install.calls
            spawns == {k \in 1..Len(calls) : calls[k].op = "Popen"}
        IN  /\ Cardinality(spawns) <= 1
            /\ \A k \in spawns :
                   /\ calls[k].argv = Invocation(window.install.path)
                   /\ StartsWith(platform, S_linux) =>
                          \E j \in 1..(k - 1) :
                              calls[j] = Chmod(window.install.path, TRUE)

\* C18 witness: on linux os.chmod failed and nothing was spawned
C18_Witness ==
    /\ platform = S_linux
    /\ window.install.called
    /\ window.install.calls = <<Chmod(window.install.path, FALSE)>>
    /\ ~window.quit

-----------------------------------------------------------------------------
(* UpdateChecker.is_newer_version on its own: three version strings are     *)
(* drawn and every comparison among them is evaluated.                      *)

\* Strings of at most n characters over the characters of a dotted version
VersionChars == {"0", "1", "."}
VersionStrings(n) == SeqsUpTo(VersionChars, n)

\* A valid dotted version: every segment is a non-negative integer
ValidVersion(s) ==
    /\ ~ParseParts(s).raised
    /\ \A i \in 1..Len(ParseParts(s).val) : ParseParts(s).val[i] >= 0

ValidVersions == {s \in VersionStrings(MaxVersionLen) : ValidVersion(s)}

\* is_newer_version(x, y) of a pair of valid versions
Newer(x, y) == is_newer_version(x, y).val

Compared(ck) ==
    [pc |-> "compared", a |-> ck.a, b |-> ck.b, c |-> ck.c,
     aa |-> Newer(ck.a, ck.a), ab |-> Newer(ck.a, ck.b), ba |-> Newer(ck.b, ck.a),
     bc |-> Newer(ck.b, ck.c), cb |-> Newer(ck.c, ck.b),
     ac |-> Newer(ck.a, ck.c), ca |-> Newer(ck.c, ck.a)]

VersionCompare ==
    /\ checker.pc = "compare"
    /\ checker' = Compared(checker)
    /\ UNCHANGED <<platform, downloader, window, files>>

InitVersion ==
    /\ platform = S_linux
    /\ \E a \in ValidVersions, b \in ValidVersions, c \in ValidVersions :
           checker = [pc |-> "compare", a |-> a, b |-> b, c |-> c]
    /\ downloader = DownloaderIdle
    /\ window = WindowIdle
    /\ files = NoFiles

NextVersion == VersionCompare

SpecVersion == InitVersion /\ [][NextVersion]_vars

\* x and y differ only by trailing zero segments
TrailingZeros(x, y) ==
    LET px == ParseParts(x).val
        py == ParseParts(y).val
        n  == Max(Len(px), Len(py))
    IN  /\ Len(px) # Len(py)
        /\ Pad(px, n) = Pad(py, n)

\* C11: is_newer_version is irreflexive, asymmetric and transitive on valid
\* versions, and two versions that differ only by trailing zero segments are
\* equal: neither is newer, and they compare alike with any third version.
C11_StrictOrder ==
    checker.pc = "compared" =>
        /\ ~checker.aa
        /\ ~(checker.ab /\ checker.ba)
        /\ (checker.ab /\ checker.bc) => checker.ac
        /\ TrailingZeros(checker.a, checker.b) =>
               /\ ~checker.ab /\ ~checker.ba
               /\ checker.ac = checker.bc
               /\ checker.ca = checker.cb

\* C11 witness: 1 and 1.0 compared with each other and with the newer 1.1
C11_Witness ==
    /\ checker.pc = "compared"
    /\ checker.a = <<"1">>
    /\ checker.b = <<"1", ".", "0">>
    /\ checker.c = <<"1", ".", "1">>
    /\ checker.ca /\ checker.cb /\ ~checker.ab /\ ~checker.ba

=============================================================================
